---- MODULE Spec2Model ----
(***************************************************************************)
(* Model of src/main.py: the scheduled content-posting bot.                *)
(*                                                                         *)
(* State: the content files, the in-memory tracker already_sent_today,     *)
(* the persisted tracker file, and the position of each of the three       *)
(* asyncio tasks (daily, morning, weekend).  The tasks are cooperative:    *)
(* one action is the code a task runs between two suspension points        *)
(* (asyncio.sleep or an awaited send to the channel).                      *)
(***************************************************************************)
EXTENDS Integers, Sequences, FiniteSets, TLC

(***************************************************************************)
(* Bounds of the model and constants of the program                        *)
(***************************************************************************)
\* longest content file (number of posts) explored
MaxPool == 2
\* most posts the four content files hold together, for the whole program
MaxContent == 3
\* num_posts of schedule_forex_posts / schedule_motivation_posts
NUM_POSTS == 5
\* send_post(post, channel_id, retries=3, delay=5)
DEFAULT_RETRIES == 3
DEFAULT_DELAY == 5
\* asyncio.sleep(idx * 1800)
POST_INTERVAL == 1800
\* largest num_posts given to get_time_intervals
MaxSlots == 7
\* the calendar the clock runs through, scaled down: steps of the clock in
\* one minute, minutes in a day, days in a week
TicksPerMinute == 2
MinutesPerDay == 3
DaysPerWeek == 2

Categories == {"forex", "motivation", "morning", "weekend"}
DailyCategories == {"forex", "motivation"}
Loops == {"daily", "morning", "weekend"}

\* One post per type the dispatcher distinguishes (post["type"]).
Post(t, b) == [type |-> t, body |-> b]
Items == {Post("image", "m1"), Post("video", "m2"), Post("text", "t1")}
NoPost == Post("none", "")

(***************************************************************************)
(* Helpers on sequences                                                    *)
(***************************************************************************)
Range(s) == {s[i] : i \in 1..Len(s)}
Min(a, b) == IF a < b THEN a ELSE b
SeqsUpTo(S, n) == UNION {[1..k -> S] : k \in 0..n}
\* number of positions of s holding x
Count(s, x) == Cardinality({i \in 1..Len(s) : s[i] = x})
DupFree(s) == \A i, j \in 1..Len(s) : s[i] = s[j] => i = j

(***************************************************************************)
(* Content store: load_data                                                *)
(***************************************************************************)
\* A content file: readable with a JSON list of posts, or missing/malformed.
File(items) == [ok |-> TRUE, items |-> items]
MissingFile == [ok |-> FALSE, items |-> <<>>]
Pools == SeqsUpTo(Items, MaxPool)

(***************************************************************************)
(* Selector: get_random_posts                                              *)
(***************************************************************************)
\* available_posts = [post for post in data if post not in already_sent]
Available(items, sentc) == SelectSeq(items, LAMBDA p : p \notin Range(sentc))

\* if len(available_posts) < num_posts
NeedReset(items, sentc, n) == Len(Available(items, sentc)) < n

\* Mutant: the sample is drawn from the whole file, sent posts included.
PopulationUnfiltered(items, sentc, n) == items

\* available_posts after the reset branch
Population(items, sentc, n) ==
    IF NeedReset(items, sentc, n) THEN items ELSE Available(items, sentc)

\* min(num_posts, len(available_posts))
SampleSize(items, sentc, n) == Min(n, Len(Population(items, sentc, n)))

\* random.sample(pop, k): k entries at pairwise distinct positions, any order
Samples(pop, k) ==
    {[i \in 1..k |-> pop[f[i]]] :
        f \in {g \in [1..k -> 1..Len(pop)] : \A i, j \in 1..k : g[i] = g[j] => i = j}}

\* the values selected_posts can take
SelectedPosts(items, sentc, n) ==
    Samples(Population(items, sentc, n), SampleSize(items, sentc, n))

\* Mutant: the reset branch does not clear the sent list.
SentAfterNoClear(items, sentc, n, sel) == sentc \o sel

\* already_sent_today[post_type] after the reset branch and the extend
SentAfter(items, sentc, n, sel) ==
    (IF NeedReset(items, sentc, n) THEN <<>> ELSE sentc) \o sel

\* save_sent_data(): open(PERSISTENCE_FILE, 'w') and json.dump succeed, or
\* open raises (the file is then left as it was)
SaveOutcomes == {"saved", "OSError"}

\* Mutant: get_random_posts catches the exception of save_sent_data and
\* returns the selection.
GetRandomPostsSwallow(f, s, n, c, sel, save) ==
    IF ~f.ok
    THEN [status |-> "raised", err |-> "FileNotFoundError", sent |-> s,
          saved |-> FALSE, posts |-> <<>>]
    ELSE [status |-> "returned", err |-> "",
          sent |-> [s EXCEPT ![c] = SentAfter(f.items, s[c], n, sel)],
          saved |-> save = "saved", posts |-> sel]

\* Mutant: the reset branch clears the lists of all categories.
GetRandomPostsResetAll(f, s, n, c, sel, save) ==
    IF ~f.ok
    THEN [status |-> "raised", err |-> "FileNotFoundError", sent |-> s,
          saved |-> FALSE, posts |-> <<>>]
    ELSE [status |-> IF save = "saved" THEN "returned" ELSE "raised",
          err |-> IF save = "saved" THEN "" ELSE save,
          sent |-> IF NeedReset(f.items, s[c], n)
                   THEN [x \in DOMAIN s |-> IF x = c THEN sel ELSE <<>>]
                   ELSE [s EXCEPT ![c] = @ \o sel],
          saved |-> save = "saved",
          posts |-> IF save = "saved" THEN sel ELSE <<>>]

\* One call get_random_posts(file, n, c) on tracker s choosing sample sel,
\* with save_sent_data ending as save: how the call ends, the tracker after
\* it, whether the file was written, the result.
GetRandomPosts(f, s, n, c, sel, save) ==
    IF ~f.ok
    THEN [status |-> "raised", err |-> "FileNotFoundError", sent |-> s,
          saved |-> FALSE, posts |-> <<>>]
    ELSE IF save # "saved"
    THEN [status |-> "raised", err |-> save,
          sent |-> [s EXCEPT ![c] = SentAfter(f.items, s[c], n, sel)],
          saved |-> FALSE, posts |-> <<>>]
    ELSE [status |-> "returned", err |-> "",
          sent |-> [s EXCEPT ![c] = SentAfter(f.items, s[c], n, sel)],
          saved |-> TRUE, posts |-> sel]

\* the samples a call can draw (one dummy choice when load_data raises)
Draws(f, s, n, c) ==
    IF f.ok THEN SelectedPosts(f.items, s[c], n) ELSE {<<>>}

(***************************************************************************)
(* State                                                                   *)
(***************************************************************************)
VARIABLES
    data,       \* content files: category -> File
    sent,       \* already_sent_today: category -> sequence of posts
    file,       \* already_sent.json, as the mapping a load at startup yields
    pc,         \* loop -> suspension point the task waits at
    err,        \* loop -> exception that ended the task ("" while it runs)
    post,       \* loop -> post of the running send_post call
    retries,    \* loop -> retries parameter of the running send_post frame
    delay,      \* loop -> delay parameter of the running send_post frame
    dcat,       \* daily loop: post_type of the running schedule_post
    dposts,     \* daily loop: posts of the running schedule_post
    didx,       \* daily loop: idx of the for loop
    sendlog,    \* history, loop -> the send_post call that runs, or that returned
                \* in the loop's last step: attempts, waits, outcome
    selected,   \* history, category -> posts selected since the list was reset
    dispatched, \* history, category -> posts sent successfully since the reset
    call,       \* history, the last direct call of get_random_posts
    access,     \* history, category -> the loops that used its sent list, and
                \* how: "select" (filter and assignment) or "dump" (json.dump)
    ti,         \* a call of get_time_intervals: its arguments and its result
    now,        \* datetime.now(), in clock steps since the week began
    wake,       \* loop -> clock steps left of its asyncio.sleep(60)
    fired       \* history, loop -> fixed-time posts it began this calendar day

vars == <<data, sent, file, pc, err, post, retries, delay, dcat, dposts, didx,
          sendlog, selected, dispatched, call, access, ti, now, wake, fired>>

\* the variables the untimed tasks and the selector leave alone
aside == <<ti, now, wake, fired>>

loopVars == <<pc, err, post, retries, delay, dcat, dposts, didx, sendlog>>

\* already_sent_today when already_sent.json does not exist
EmptyTracker == [c \in Categories |-> <<>>]

\* trackers json.load returns at startup, explored by the selector: empty, or
\* one forex post left by an earlier run, possibly no longer in the file
LoadedTrackers ==
    {EmptyTracker} \cup {[EmptyTracker EXCEPT !["forex"] = <<p>>] : p \in Items}

NoSend == [op |-> "none", attempts |-> 0, waits |-> <<>>, outcome |-> "none"]
NoCall == [cat |-> "none", n |-> 0, before |-> <<>>, status |-> "none",
           err |-> "", posts |-> <<>>, after |-> <<>>]

NoIntervals == [start |-> 0, end |-> 0, n |-> 0, done |-> FALSE, slots |-> <<>>]

\* the state of the tasks when main() has created them
InitLoops ==
    /\ pc = [l \in Loops |-> "start"]
    /\ err = [l \in Loops |-> ""]
    /\ post = [l \in Loops |-> NoPost]
    /\ retries = [l \in Loops |-> 0]
    /\ delay = [l \in Loops |-> 0]
    /\ dcat = "none"
    /\ dposts = <<>>
    /\ didx = 0
    /\ sendlog = [l \in Loops |-> NoSend]

(***************************************************************************)
(* History of the selections                                               *)
(***************************************************************************)
NoAccess == [c \in Categories |-> {}]

\* loop l filters on already_sent_today[c] and assigns it
Selects(a, l, c) == [a EXCEPT ![c] = @ \cup {<<l, "select">>}]

\* loop l runs json.dump(already_sent_today, file): every list is read
Dumps(a, l) == [c \in Categories |-> a[c] \cup {<<l, "dump">>}]

SelectedAfter(g, c, reset, posts) ==
    [g EXCEPT ![c] = (IF reset THEN {} ELSE @) \cup Range(posts)]

DispatchedAfter(d, c, reset) == [d EXCEPT ![c] = IF reset THEN {} ELSE @]

(***************************************************************************)
(* The selector on its own: get_random_posts called directly, any number   *)
(* of times, with num_posts from 1 to 5, on the categories of the daily    *)
(* loop.                                                                   *)
(***************************************************************************)
InitSel ==
    /\ \E f \in {File(p) : p \in Pools} \cup {MissingFile} :
          data = [c \in Categories |-> f]
    /\ sent \in LoadedTrackers
    /\ file = sent
    /\ InitLoops
    /\ selected = [c \in Categories |-> Range(sent[c])]
    /\ dispatched = [c \in Categories |-> {}]
    /\ call = NoCall
    /\ access = NoAccess
    /\ ti = NoIntervals
    /\ now = 0
    /\ wake = [l \in Loops |-> 0]
    /\ fired = [l \in Loops |-> 0]

\* one call whose save_sent_data succeeds (a failing save ends the calling
\* task and is explored with the program, under Spec)
SelCall ==
    \E c \in DailyCategories, n \in 1..NUM_POSTS :
      \E sel \in Draws(data[c], sent, n, c) :
        LET r == GetRandomPosts(data[c], sent, n, c, sel, "saved")
            reset == data[c].ok /\ NeedReset(data[c].items, sent[c], n)
        IN  /\ sent' = r.sent
            /\ file' = IF r.saved THEN r.sent ELSE file
            /\ call' = [cat |-> c, n |-> n, before |-> sent[c],
                        status |-> r.status, err |-> r.err, posts |-> r.posts,
                        after |-> r.sent[c]]
            /\ selected' = IF data[c].ok
                           THEN SelectedAfter(selected, c, reset, sel)
                           ELSE selected
            /\ dispatched' = DispatchedAfter(dispatched, c, reset)
            /\ UNCHANGED <<data, loopVars, access>>

NextSel == SelCall /\ UNCHANGED aside

SpecSel == InitSel /\ [][NextSel]_vars

\* the selector started without already_sent.json
InitSelEmpty == InitSel /\ sent = EmptyTracker

SpecSelEmpty == InitSelEmpty /\ [][NextSel]_vars

(***************************************************************************)
(* Properties of the selector (checked under SpecSel)                      *)
(***************************************************************************)
\* the file and the number of its entries that were unsent when the last
\* direct call of get_random_posts began
CallItems == data[call.cat].items
CallUnsent ==
    Cardinality({i \in 1..Len(CallItems) : CallItems[i] \notin Range(call.before)})
CallReturned == call.cat # "none" /\ call.status = "returned"

\* C1: a call of get_random_posts that finds at least num_posts unsent
\* entries returns only posts that were not in the category's sent list when
\* the call began; a sent post is returned only in the reset case.
C1_NoSentPostReturned ==
    (CallReturned /\ CallUnsent >= call.n) =>
        \A p \in Range(call.posts) : p \notin Range(call.before)

C1_Witness ==
    /\ CallReturned /\ CallUnsent >= call.n
    /\ call.posts # <<>>
    /\ \E p \in Range(call.before) : p \in Range(CallItems)

\* C2: a call that finds fewer than num_posts unsent entries clears the sent
\* list, returns min(num_posts, |items|) entries drawn without replacement
\* from the whole file (pairwise different when the file has no duplicates),
\* and leaves exactly the returned posts in the sent list.
C2_ResetRebuildsSentList ==
    (CallReturned /\ CallUnsent < call.n) =>
        /\ Len(call.posts) = Min(call.n, Len(CallItems))
        /\ \A x \in Range(call.posts) : Count(call.posts, x) <= Count(CallItems, x)
        /\ DupFree(CallItems) => DupFree(call.posts)
        /\ call.after = call.posts
        /\ sent[call.cat] = call.posts

C2_Witness ==
    /\ CallReturned /\ call.n = NUM_POSTS
    /\ Len(CallItems) >= 2
    /\ Range(CallItems) \subseteq Range(call.before)
    /\ Len(call.posts) = Len(CallItems)

\* C10: on an empty content list get_random_posts fails with
\* NoContentAvailable instead of returning normally with an empty
\* selection, and nothing is handed to the dispatcher.
C10_EmptyPoolRaises ==
    (call.cat # "none" /\ data[call.cat].ok /\ CallItems = <<>>) =>
        /\ call.status = "raised"
        /\ call.err = "NoContentAvailable"
        /\ call.posts = <<>>

\* C18 (under SpecSelEmpty): with a duplicate-free content file and a
\* tracker that starts empty, after any sequence of get_random_posts calls
\* the sent list of a category holds no post twice and only posts of the
\* file, so it is never longer than the file.
C18_SentListWithinPool ==
    \A c \in DailyCategories :
        (data[c].ok /\ DupFree(data[c].items)) =>
            /\ DupFree(sent[c])
            /\ Range(sent[c]) \subseteq Range(data[c].items)
            /\ Len(sent[c]) <= Len(data[c].items)

C18_Witness ==
    /\ CallReturned
    /\ DupFree(CallItems)
    /\ call.n = 1
    /\ Len(call.before) = 1
    /\ Len(sent[call.cat]) = Len(CallItems)
    /\ selected[call.cat] = Range(CallItems)

(***************************************************************************)
(* Dispatcher: send_post                                                   *)
(***************************************************************************)
FixedLoops == {"morning", "weekend"}

\* the category whose post a loop is sending
LoopCat(l) == IF l = "daily" THEN dcat ELSE l

\* the external operation send_post awaits for a post
SendOp(p) ==
    CASE p.type = "image" -> "send_photo"
      [] p.type = "video" -> "send_video"
      [] p.type = "text" -> "send_message"
      [] OTHER -> "none"

\* Mutant: the except branch retries while retries >= 0.
OnSendFailureOneMore(r) == IF r >= 0 THEN "retry" ELSE "return"

\* Mutant: the except branch re-raises once the retries are used up.
OnSendFailureRaise(r) == IF r > 0 THEN "retry" ELSE "raise"

\* the except branch of send_post: sleep and recurse, or log and return
OnSendFailure(r) == IF r > 0 THEN "retry" ELSE "return"

\* Mutant: the delay grows by the initial delay instead of doubling.
NextDelayLinear(d) == d + DEFAULT_DELAY

\* delay * 2 in the recursive call
NextDelay(d) == d * 2

\* Mutant: the recursive call passes retries on unchanged.
NextRetriesSame(r) == r

\* retries - 1 in the recursive call
NextRetries(r) == r - 1

\* the caller enters send_post(p, CHANNEL_ID) and awaits the first send
CallSendPost(l, p) ==
    /\ post' = [post EXCEPT ![l] = p]
    /\ retries' = [retries EXCEPT ![l] = DEFAULT_RETRIES]
    /\ delay' = [delay EXCEPT ![l] = DEFAULT_DELAY]
    /\ sendlog' = [sendlog EXCEPT ![l] =
                      [op |-> SendOp(p), attempts |-> 1, waits |-> <<>>,
                       outcome |-> "pending"]]

\* send_post returns to its caller: every frame of the recursion is popped
ReturnSendPost(l, how) ==
    /\ post' = [post EXCEPT ![l] = NoPost]
    /\ retries' = [retries EXCEPT ![l] = 0]
    /\ delay' = [delay EXCEPT ![l] = 0]
    /\ sendlog' = [sendlog EXCEPT ![l].outcome = how]

\* the awaited send raised and retries remain: asyncio.sleep(delay) begins
BeginBackoff(l) ==
    /\ pc' = [pc EXCEPT ![l] = "backoff"]
    /\ sendlog' = [sendlog EXCEPT ![l].waits = Append(@, delay[l])]
    /\ UNCHANGED <<post, retries, delay>>

\* asyncio.sleep(delay) is over: send_post(post, channel_id, retries - 1,
\* delay * 2) awaits its send
BackoffDone(l) ==
    /\ pc[l] = "backoff"
    /\ pc' = [pc EXCEPT ![l] = "send"]
    /\ retries' = [retries EXCEPT ![l] = NextRetries(@)]
    /\ delay' = [delay EXCEPT ![l] = NextDelay(@)]
    /\ sendlog' = [sendlog EXCEPT ![l].attempts = @ + 1]
    /\ UNCHANGED <<data, sent, file, err, post, dcat, dposts, didx,
                   selected, dispatched, call, access>>

(***************************************************************************)
(* Daily loop: schedule_all_posts, schedule_post                           *)
(***************************************************************************)
\* the tracker, its file and their history, threaded through one action
Tracker == [sent |-> sent, file |-> file, selected |-> selected,
            dispatched |-> dispatched, access |-> access]

\* posts = get_random_posts(json_file, num_posts, post_type) on tracker t
SelectFor(c, t) ==
    {LET sel == x[1]
         r == GetRandomPosts(data[c], t.sent, NUM_POSTS, c, sel, x[2])
         reset == data[c].ok /\ NeedReset(data[c].items, t.sent[c], NUM_POSTS)
     IN  [status |-> r.status, err |-> r.err, posts |-> r.posts,
          t |-> [sent |-> r.sent,
                 file |-> IF r.saved THEN r.sent ELSE t.file,
                 selected |-> IF data[c].ok
                              THEN SelectedAfter(t.selected, c, reset, sel)
                              ELSE t.selected,
                 dispatched |-> DispatchedAfter(t.dispatched, c, reset),
                 access |-> IF ~data[c].ok THEN t.access
                            ELSE IF r.saved
                            THEN Dumps(Selects(t.access, "daily", c), "daily")
                            ELSE Selects(t.access, "daily", c)]] :
     x \in Draws(data[c], t.sent, NUM_POSTS, c) \X SaveOutcomes}

DailyAt(p, e, c, ps, i, t) ==
    [pc |-> p, err |-> e, dcat |-> c, dposts |-> ps, didx |-> i, t |-> t]

\* schedule_post(c, ...) from its call to its first suspension point, or to
\* its return when nothing was selected and the for loop ends at once
SchedulePost(c, t) ==
    {IF r.status = "raised"
     THEN DailyAt("crashed", r.err, "none", <<>>, 0, r.t)
     ELSE IF r.posts # <<>>
     THEN DailyAt("sleep", "", c, r.posts, 0, r.t)
     ELSE DailyAt("returned", "", c, <<>>, 0, r.t) : r \in SelectFor(c, t)}

\* await asyncio.sleep(24 * 3600)
DaySleep(t) == {DailyAt("daysleep", "", "none", <<>>, 0, t)}

\* await schedule_motivation_posts(), then the sleep until the next day
ScheduleMotivation(t) ==
    UNION {IF o.pc = "returned" THEN DaySleep(o.t) ELSE {o} :
           o \in SchedulePost("motivation", t)}

\* await schedule_forex_posts(), then schedule_motivation_posts()
ScheduleForex(t) ==
    UNION {IF o.pc = "returned" THEN ScheduleMotivation(o.t) ELSE {o} :
           o \in SchedulePost("forex", t)}

\* Mutant: the next cycle starts without the 24 hour sleep.
AfterSchedulePostNoSleep(c, t) ==
    IF c = "forex" THEN ScheduleMotivation(t) ELSE ScheduleForex(t)

\* what follows the return of schedule_post(c, ...)
AfterSchedulePost(c, t) ==
    IF c = "forex" THEN ScheduleMotivation(t) ELSE DaySleep(t)

\* what follows the return of send_post in the for loop of schedule_post
AfterDailySend(t) ==
    IF didx + 1 < Len(dposts)
    THEN {DailyAt("sleep", "", dcat, dposts, didx + 1, t)}
    ELSE AfterSchedulePost(dcat, t)

\* the seconds the daily loop sleeps before the post at idx
DailySleepSeconds == didx * POST_INTERVAL

DailyGoes(o) ==
    /\ pc' = [pc EXCEPT !["daily"] = o.pc]
    /\ err' = [err EXCEPT !["daily"] = o.err]
    /\ dcat' = o.dcat
    /\ dposts' = o.dposts
    /\ didx' = o.didx
    /\ sent' = o.t.sent
    /\ file' = o.t.file
    /\ selected' = o.t.selected
    /\ dispatched' = o.t.dispatched
    /\ access' = o.t.access

\* the body of `while True` in schedule_all_posts, up to its first await
DailyCycle ==
    /\ pc["daily"] \in {"start", "daysleep"}
    /\ \E o \in ScheduleForex(Tracker) : DailyGoes(o)
    /\ sendlog' = [sendlog EXCEPT !["daily"] = NoSend]
    /\ UNCHANGED <<data, post, retries, delay, call>>

\* asyncio.sleep(idx * 1800) is over: send_post(post, CHANNEL_ID) starts
DailySleepDone ==
    /\ pc["daily"] = "sleep"
    /\ pc' = [pc EXCEPT !["daily"] = "send"]
    /\ CallSendPost("daily", dposts[didx + 1])
    /\ UNCHANGED <<data, sent, file, err, dcat, dposts, didx,
                   selected, dispatched, call, access>>

\* the awaited send of the daily loop returns
DailySendSucceeds ==
    /\ pc["daily"] = "send"
    /\ ReturnSendPost("daily", "ok")
    /\ \E o \in AfterDailySend(
                  [Tracker EXCEPT !.dispatched[dcat] = @ \cup {post["daily"]}]) :
          DailyGoes(o)
    /\ UNCHANGED <<data, call>>

\* the awaited send of the daily loop raises
DailySendFails ==
    /\ pc["daily"] = "send"
    /\ CASE OnSendFailure(retries["daily"]) = "retry" ->
              /\ BeginBackoff("daily")
              /\ UNCHANGED <<sent, file, err, dcat, dposts, didx,
                             selected, dispatched, access>>
         [] OnSendFailure(retries["daily"]) = "return" ->
              /\ ReturnSendPost("daily", "gaveup")
              /\ \E o \in AfterDailySend(Tracker) : DailyGoes(o)
         [] OTHER ->
              /\ ReturnSendPost("daily", "raised")
              /\ DailyGoes(DailyAt("crashed", "SendError", "none", <<>>, 0, Tracker))
    /\ UNCHANGED <<data, call>>

(***************************************************************************)
(* Fixed-time loops: start_morning_post / morning_post and                 *)
(* start_weekend_post / weekend_post (loop l posts category l)             *)
(***************************************************************************)
\* [p for p in data if p not in already_sent_today[l]]
Candidates(items, sentc) == SelectSeq(items, LAMBDA p : p \notin Range(sentc))

\* Mutant: the selected post is appended to the sent list.
MarkFixedAppend(sentc, p) == Append(sentc, p)

\* already_sent_today[l] = [post]
MarkFixed(sentc, p) == <<p>>

\* the task of loop l ends with an unhandled exception
FixedCrash(l, e) ==
    /\ pc' = [pc EXCEPT ![l] = "crashed"]
    /\ err' = [err EXCEPT ![l] = e]

\* the clock does not match: await asyncio.sleep(60)
PollIdle(l) ==
    /\ pc[l] \in {"start", "sleep60"}
    /\ pc' = [pc EXCEPT ![l] = "sleep60"]
    /\ sendlog' = [sendlog EXCEPT ![l] = NoSend]
    /\ UNCHANGED <<data, sent, file, err, post, retries, delay, dcat, dposts,
                   didx, selected, dispatched, call, access>>

\* Mutant: morning_post uses the weekend list.
FixedCatShared(l) == "weekend"

\* the list morning_post / weekend_post filters on and assigns
FixedCat(l) == l

\* the clock matches: morning_post() / weekend_post() up to its first await
PollDue(l) ==
    /\ pc[l] \in {"start", "sleep60"}
    /\ IF ~data[l].ok
       THEN /\ FixedCrash(l, "FileNotFoundError")
            /\ sendlog' = [sendlog EXCEPT ![l] = NoSend]
            /\ UNCHANGED <<sent, post, retries, delay, selected, dispatched,
                           access>>
       ELSE IF Candidates(data[l].items, sent[FixedCat(l)]) = <<>>
       THEN /\ FixedCrash(l, "IndexError")
            /\ sendlog' = [sendlog EXCEPT ![l] = NoSend]
            /\ access' = Selects(access, l, FixedCat(l))
            /\ UNCHANGED <<sent, post, retries, delay, selected, dispatched>>
       ELSE \E i \in 1..Len(Candidates(data[l].items, sent[FixedCat(l)])) :
              LET p == Candidates(data[l].items, sent[FixedCat(l)])[i]
              IN  /\ sent' = [sent EXCEPT ![FixedCat(l)] = MarkFixed(@, p)]
                  /\ selected' = [selected EXCEPT ![FixedCat(l)] = {p}]
                  /\ dispatched' = [dispatched EXCEPT ![FixedCat(l)] = {}]
                  /\ access' = Selects(access, l, FixedCat(l))
                  /\ CallSendPost(l, p)
                  /\ pc' = [pc EXCEPT ![l] = "send"]
                  /\ UNCHANGED err
    /\ UNCHANGED <<data, file, dcat, dposts, didx, call>>

\* send_post has returned: save_sent_data(), then await asyncio.sleep(60);
\* an exception of save_sent_data ends the task
AfterFixedSend(l) ==
    /\ \E save \in SaveOutcomes :
          IF save = "saved"
          THEN /\ file' = sent
               /\ access' = Dumps(access, l)
               /\ pc' = [pc EXCEPT ![l] = "sleep60"]
               /\ UNCHANGED err
          ELSE /\ FixedCrash(l, save)
               /\ UNCHANGED <<file, access>>
    /\ UNCHANGED <<sent, selected>>

\* the awaited send of a fixed-time loop returns
FixedSendSucceeds(l) ==
    /\ pc[l] = "send"
    /\ ReturnSendPost(l, "ok")
    /\ dispatched' = [dispatched EXCEPT ![l] = @ \cup {post[l]}]
    /\ AfterFixedSend(l)
    /\ UNCHANGED <<data, dcat, dposts, didx, call>>

\* the awaited send of a fixed-time loop raises
FixedSendFails(l) ==
    /\ pc[l] = "send"
    /\ CASE OnSendFailure(retries[l]) = "retry" ->
              /\ BeginBackoff(l)
              /\ UNCHANGED <<sent, file, err, selected, access>>
         [] OnSendFailure(retries[l]) = "return" ->
              /\ ReturnSendPost(l, "gaveup")
              /\ AfterFixedSend(l)
         [] OTHER ->
              /\ ReturnSendPost(l, "raised")
              /\ FixedCrash(l, "SendError")
              /\ UNCHANGED <<sent, file, selected, access>>
    /\ UNCHANGED <<data, dispatched, dcat, dposts, didx, call>>

(***************************************************************************)
(* The program: main() creates the three tasks                             *)
(***************************************************************************)
\* content files explored for the whole program: the first k posts of one
\* list with a post of each type, or a missing file
BasePool == <<Post("image", "m1"), Post("video", "m2"), Post("text", "t1")>>
Files == {File(SubSeq(BasePool, 1, k)) : k \in 0..Len(BasePool)} \cup {MissingFile}

RECURSIVE SumLen(_, _)
SumLen(d, S) ==
    IF S = {} THEN 0
    ELSE LET c == CHOOSE x \in S : TRUE
         IN  Len(d[c].items) + SumLen(d, S \ {c})

DataConfigs == {d \in [Categories -> Files] : SumLen(d, Categories) <= MaxContent}

Init ==
    /\ data \in DataConfigs
    /\ sent = EmptyTracker
    /\ file = sent
    /\ InitLoops
    /\ selected = [c \in Categories |-> {}]
    /\ dispatched = [c \in Categories |-> {}]
    /\ call = NoCall
    /\ access = NoAccess
    /\ ti = NoIntervals
    /\ now = 0
    /\ wake = [l \in Loops |-> 0]
    /\ fired = [l \in Loops |-> 0]

Next ==
    \/ DailyCycle /\ UNCHANGED aside
    \/ DailySleepDone /\ UNCHANGED aside
    \/ DailySendSucceeds /\ UNCHANGED aside
    \/ DailySendFails /\ UNCHANGED aside
    \/ \E l \in FixedLoops : PollIdle(l) /\ UNCHANGED aside
    \/ \E l \in FixedLoops : PollDue(l) /\ UNCHANGED aside
    \/ \E l \in FixedLoops : FixedSendSucceeds(l) /\ UNCHANGED aside
    \/ \E l \in FixedLoops : FixedSendFails(l) /\ UNCHANGED aside
    \/ \E l \in Loops : BackoffDone(l) /\ UNCHANGED aside

Spec == Init /\ [][Next]_vars

(***************************************************************************)
(* The fixed-time loops under a clock: start_morning_post and              *)
(* start_weekend_post read datetime.now() and sleep 60 seconds.  A send    *)
(* (its retries and backoff sleeps included) lasts any number of clock     *)
(* steps.  The daily task is left out: it shares only already_sent.json    *)
(* with these loops, which never read it.                                  *)
(***************************************************************************)
TicksPerDay == TicksPerMinute * MinutesPerDay
TicksPerWeek == TicksPerDay * DaysPerWeek

\* now.minute with now.hour, and now.weekday()
MinuteOfDay(t) == (t \div TicksPerMinute) % MinutesPerDay
Weekday(t) == t \div TicksPerDay

\* the places of 07:00, of 19:45 and of Friday in the scaled calendar
MorningMinute == MinutesPerDay \div 2
WeekendMinute == MinutesPerDay - 1
Friday == DaysPerWeek - 1

\* the condition of the if in start_morning_post / start_weekend_post
Due(l, t) ==
    IF l = "morning"
    THEN MinuteOfDay(t) = MorningMinute
    ELSE Weekday(t) = Friday /\ MinuteOfDay(t) = WeekendMinute

\* Mutant: the loops sleep half a minute between two readings of the clock.
SleepTicksHalf == TicksPerMinute \div 2

\* await asyncio.sleep(60): one minute of clock steps
SleepTicks == TicksPerMinute

\* the files of the fixed-time loops, the daily task not running
ClockConfigs ==
    {d \in DataConfigs :
        d["forex"] = MissingFile /\ d["motivation"] = MissingFile}

InitClock ==
    /\ data \in ClockConfigs
    /\ sent = EmptyTracker
    /\ file = sent
    /\ InitLoops
    /\ selected = [c \in Categories |-> {}]
    /\ dispatched = [c \in Categories |-> {}]
    /\ call = NoCall
    /\ access = NoAccess
    /\ ti = NoIntervals
    /\ now \in 0..(TicksPerWeek - 1)
    /\ wake = [l \in Loops |-> 0]
    /\ fired = [l \in Loops |-> 0]

\* the clock advances by one step; at midnight a new calendar day begins
Tick ==
    /\ now' = (now + 1) % TicksPerWeek
    /\ wake' = [l \in Loops |-> IF wake[l] > 0 THEN wake[l] - 1 ELSE 0]
    /\ fired' = IF now' % TicksPerDay = 0 THEN [l \in Loops |-> 0] ELSE fired
    /\ UNCHANGED <<data, sent, file, loopVars, selected, dispatched, call,
                   access, ti>>

\* the sleep of loop l begins when the loop reaches asyncio.sleep(60)
Sleeps(l) ==
    wake' = [wake EXCEPT ![l] = IF pc'[l] = "sleep60" THEN SleepTicks ELSE @]

\* the sleep is over and the clock does not match
ClockPollIdle(l) ==
    /\ wake[l] = 0
    /\ ~Due(l, now)
    /\ PollIdle(l)
    /\ Sleeps(l)
    /\ UNCHANGED <<ti, now, fired>>

\* the sleep is over and the clock matches: the post begins
ClockPollDue(l) ==
    /\ wake[l] = 0
    /\ Due(l, now)
    /\ PollDue(l)
    /\ fired' = [fired EXCEPT ![l] = IF pc'[l] = "send" THEN @ + 1 ELSE @]
    /\ UNCHANGED <<ti, now, wake>>

ClockSendSucceeds(l) ==
    /\ FixedSendSucceeds(l)
    /\ Sleeps(l)
    /\ UNCHANGED <<ti, now, fired>>

ClockSendFails(l) ==
    /\ FixedSendFails(l)
    /\ Sleeps(l)
    /\ UNCHANGED <<ti, now, fired>>

ClockBackoffDone(l) == BackoffDone(l) /\ UNCHANGED aside

NextClock ==
    \/ Tick
    \/ \E l \in FixedLoops : ClockPollIdle(l)
    \/ \E l \in FixedLoops : ClockPollDue(l)
    \/ \E l \in FixedLoops : ClockSendSucceeds(l)
    \/ \E l \in FixedLoops : ClockSendFails(l)
    \/ \E l \in FixedLoops : ClockBackoffDone(l)

SpecClock == InitClock /\ [][NextClock]_vars

\* C19 (under SpecClock): a fixed-time loop begins at most one post in a
\* calendar day, hence at most one in the 07:00 minute and at most one in
\* the Friday 19:45 minute, however long the send and its retries last.
C19_AtMostOnePostPerDay ==
    \A l \in FixedLoops : fired[l] <= 1

C19_Witness ==
    \E l \in FixedLoops :
        /\ fired[l] = 1
        /\ sendlog[l].outcome = "gaveup"
        /\ pc[l] = "sleep60"
        /\ wake[l] = SleepTicks
        /\ Due(l, now)
        /\ Len(Candidates(data[l].items, sent[l])) >= 1

(***************************************************************************)
(* Time slots: get_time_intervals                                          *)
(***************************************************************************)
\* hours datetime.replace(hour=...) accepts, and end hours up to midnight
StartHours == 0..23
EndHours == 0..24

\* strftime("%H:%M"): two decimal digits, a colon, two decimal digits
Digits == <<"0", "1", "2", "3", "4", "5", "6", "7", "8", "9">>
TwoDigits(k) == Digits[(k \div 10) + 1] \o Digits[(k % 10) + 1]
HHMM(h, m) == TwoDigits(h) \o ":" \o TwoDigits(m)

\* the time of day, as strftime prints it, m minutes after midnight of the
\* day the call is made (before it when m is negative)
TimeOfDay(m) == HHMM((m % (24 * 60)) \div 60, (m % (24 * 60)) % 60)

\* Mutant: the gap is rounded up to the next whole minute.
IntervalMinutesCeil(start, end, n) == ((end - start) * 60 + n - 1) \div n

\* interval_minutes = total_minutes // num_posts
IntervalMinutes(start, end, n) == ((end - start) * 60) \div n

\* the list get_time_intervals(start, end, n) returns
GetTimeIntervals(start, end, n) ==
    [k \in 1..n |-> TimeOfDay(start * 60 + (k - 1) * IntervalMinutes(start, end, n))]

InitIntervals ==
    /\ data = [c \in Categories |-> MissingFile]
    /\ sent = EmptyTracker
    /\ file = sent
    /\ InitLoops
    /\ selected = [c \in Categories |-> {}]
    /\ dispatched = [c \in Categories |-> {}]
    /\ call = NoCall
    /\ access = NoAccess
    /\ now = 0
    /\ wake = [l \in Loops |-> 0]
    /\ fired = [l \in Loops |-> 0]
    /\ \E start \in StartHours, end \in EndHours, n \in 1..MaxSlots :
          ti = [start |-> start, end |-> end, n |-> n, done |-> FALSE,
                slots |-> <<>>]

CallGetTimeIntervals ==
    /\ ~ti.done
    /\ ti' = [ti EXCEPT !.done = TRUE,
                        !.slots = GetTimeIntervals(ti.start, ti.end, ti.n)]
    /\ UNCHANGED <<data, sent, file, loopVars, selected, dispatched, call,
                   access, now, wake, fired>>

NextIntervals == CallGetTimeIntervals

SpecIntervals == InitIntervals /\ [][NextIntervals]_vars

\* the whole-minute quotient of a by b > 0: the q with q * b <= a < (q + 1) * b
WholeQuotient(a, b) ==
    CHOOSE q \in -(24 * 60)..(24 * 60) : q * b <= a /\ a < (q + 1) * b

\* the result of the call for N = 5, start = 8, end = 20
SlotsOfTheDay ==
    (ti.start = 8 /\ ti.end = 20 /\ ti.n = 5) =>
        ti.slots = <<"08:00", "10:24", "12:48", "15:12", "17:36">>

\* C16 as claimed (under SpecIntervals): the call returns N slots, slot i
\* being the time of day i * ((end - start) * 60 / N) minutes after start:00,
\* printed as HH:MM (the fraction of a minute is not printed).
C16_SlotsAtExactFractions ==
    ti.done =>
        /\ Len(ti.slots) = ti.n
        /\ \A i \in 0..(ti.n - 1) :
              ti.slots[i + 1] =
                  TimeOfDay(ti.start * 60
                            + WholeQuotient(i * (ti.end - ti.start) * 60, ti.n))
        /\ SlotsOfTheDay

\* C16 as amended (under SpecIntervals): the call returns N slots, slot i
\* being the time of day i * step minutes after start:00, printed as HH:MM,
\* where step is the whole-minute quotient of (end - start) * 60 by N.
C16_SlotsAtWholeMinuteSteps ==
    ti.done =>
        /\ Len(ti.slots) = ti.n
        /\ \A i \in 0..(ti.n - 1) :
              ti.slots[i + 1] =
                  TimeOfDay(ti.start * 60
                            + i * WholeQuotient((ti.end - ti.start) * 60, ti.n))
        /\ SlotsOfTheDay

C16_Witness ==
    /\ ti.done
    /\ ti.start = 8 /\ ti.end = 20 /\ ti.n = 7
    /\ ti.slots[7] = "18:12"

(***************************************************************************)
(* Properties of the dispatcher (checked under Spec)                       *)
(***************************************************************************)
InSendPost(l) == pc[l] \in {"send", "backoff"}

\* C3: a send_post call whose every attempt fails makes exactly 3 retries
\* after the first attempt, sleeping 5 s, 10 s and 20 s before them, and
\* then returns with no further attempt or sleep.
C3_ThreeRetriesThenGiveUp ==
    \A l \in Loops :
        /\ sendlog[l].outcome = "gaveup" =>
              /\ sendlog[l].attempts = 1 + 3
              /\ sendlog[l].waits = <<5, 10, 20>>
              /\ ~InSendPost(l)
        /\ sendlog[l].outcome = "pending" =>
              /\ InSendPost(l)
              /\ sendlog[l].attempts <= 1 + 3
              /\ Len(sendlog[l].waits) <= 3
              /\ sendlog[l].waits = SubSeq(<<5, 10, 20>>, 1, Len(sendlog[l].waits))
              /\ sendlog[l].attempts =
                    Len(sendlog[l].waits) + (IF pc[l] = "send" THEN 1 ELSE 0)

C3_Witness ==
    \E l \in Loops :
        /\ sendlog[l].outcome = "gaveup"
        /\ sendlog[l].waits = <<5, 10, 20>>

\* C4 as claimed: one send_post call invokes the external send at most
\* maxRetries (3) times, the first attempt included.
C4_AtMostMaxRetriesSends ==
    \A l \in Loops : sendlog[l].attempts <= DEFAULT_RETRIES

\* C4 as amended: one send_post call invokes the external send at most
\* maxRetries + 1 (4) times: the first attempt and at most 3 retries.
C4_AtMostOneMoreThanMaxRetries ==
    \A l \in Loops : sendlog[l].attempts <= DEFAULT_RETRIES + 1

C4_Witness ==
    \E l \in Loops :
        pc[l] = "send" /\ sendlog[l].attempts = DEFAULT_RETRIES + 1

\* the step in which the send_post call of loop l returns or raises
SendPostEnds(l) == pc[l] = "send" /\ pc'[l] \notin {"send", "backoff"}

\* the caller's next step after `await send_post(...)`, whatever it returned
CallerGoesOn(l) ==
    IF l = "daily"
    THEN IF didx + 1 < Len(dposts)
         THEN /\ pc'[l] = "sleep" /\ didx' = didx + 1
              /\ dposts' = dposts /\ dcat' = dcat
         ELSE IF dcat = "forex"
         THEN \/ pc'[l] = "sleep" /\ dcat' = "motivation" /\ didx' = 0
              \/ pc'[l] = "daysleep" /\ data["motivation"].items = <<>>
              \/ pc'[l] = "crashed" /\ ~data["motivation"].ok
              \/ pc'[l] = "crashed" /\ err'[l] = "OSError"
         ELSE pc'[l] = "daysleep"
    ELSE \/ pc'[l] = "sleep60" /\ file' = sent'
         \/ pc'[l] = "crashed" /\ err'[l] = "OSError" /\ file' = file

\* C5: send_post never raises to its caller: when its retries are used up
\* it returns, and the calling loop goes on with its next step exactly as
\* after a successful send.
C5_SendPostNeverRaises ==
    [][\A l \in Loops :
          SendPostEnds(l) =>
              /\ sendlog'[l].outcome \in {"ok", "gaveup"}
              /\ err'[l] # "SendError"
              /\ CallerGoesOn(l)]_vars

C5_Witness ==
    /\ sendlog["daily"].outcome = "gaveup"
    /\ pc["daily"] = "sleep"
    /\ didx = 1

(***************************************************************************)
(* Properties of the tracker (checked under Spec)                          *)
(***************************************************************************)
\* C6 as claimed: every post in a category's sent list has been sent
\* successfully to the channel since that list was last reset.
C6_SentWasDispatched ==
    \A c \in Categories : Range(sent[c]) \subseteq dispatched[c]

\* C6 as amended: every post in a category's sent list has been selected for
\* dispatch since that list was last reset (it is marked when selected,
\* before its send is attempted, and stays marked when the send fails).
C6_SentWasSelected ==
    \A c \in Categories : Range(sent[c]) \subseteq selected[c]

C6_Witness ==
    \E l \in Loops :
        /\ sendlog[l].outcome = "gaveup"
        /\ \E p \in Range(sent[LoopCat(l)]) :
              p \in selected[LoopCat(l)] /\ p \notin dispatched[LoopCat(l)]

\* C7: at every suspension point of every loop the persisted tracker equals
\* the in-memory tracker, for all four categories (as long as no save has
\* failed).
C7_FileEqualsTracker ==
    (\A l \in Loops : err[l] # "OSError") =>
        \A c \in Categories : file[c] = sent[c]

\* C8: whenever its category has at least one post, a fixed-time post
\* selects one: with no unsent post left the no-repeat window restarts and
\* the selection does not fail.
C8_FixedPostNeverFails ==
    \A l \in FixedLoops :
        (data[l].ok /\ Len(data[l].items) >= 1) => err[l] # "IndexError"

\* C9: after a morning or weekend selection the category's sent list holds
\* exactly one post, the one just selected, whatever it held before.
C9_FixedListHoldsSelection ==
    \A l \in FixedLoops :
        /\ InSendPost(l) => sent[l] = <<post[l]>>
        /\ selected[l] # {} => (Len(sent[l]) = 1 /\ sent[l][1] \in selected[l])

C9_Witness ==
    \E l \in FixedLoops :
        /\ pc[l] = "send"
        /\ sent[l] = <<post[l]>>
        /\ Len(file[l]) = 1
        /\ file[l] # sent[l]

(***************************************************************************)
(* Properties of the loops (checked under Spec)                            *)
(***************************************************************************)
\* C11: a failure in one category's cycle does not stop the long-running
\* loops: no task ends, so the daily loop goes on to motivation and to its
\* later cycles and the polling loops keep polling.
C11_LoopsSurviveFailures ==
    \A l \in Loops : pc[l] # "crashed"

\* C12: the wait inserted before each post of a batch after the first is a
\* fixed 30 minutes, independent of the post's position in the batch.
C12_FixedThirtyMinuteWait ==
    (pc["daily"] = "sleep" /\ didx >= 1) => DailySleepSeconds = POST_INTERVAL

\* C13: when save_sent_data raises inside get_random_posts the exception
\* reaches the caller (the daily task ends with it, no send_post call starts)
\* and no post of that selection is dispatched: a batch is only ever
\* dispatched when its selection was persisted.
C13_SaveFailureSurfaced ==
    /\ err["daily"] = "OSError" =>
          /\ pc["daily"] = "crashed"
          /\ post["daily"] = NoPost
          /\ dposts = <<>>
          /\ \A c \in DailyCategories :
                file[c] # sent[c] => Range(sent[c]) \cap dispatched[c] = {}
    /\ pc["daily"] \in {"sleep", "send", "backoff"} => file[dcat] = sent[dcat]

C13_Witness ==
    /\ err["daily"] = "OSError"
    /\ \E c \in DailyCategories : sent[c] # <<>> /\ file[c] # sent[c]

\* the send_post call of the daily loop returns in this step
DailySendPostReturns ==
    pc["daily"] = "send" /\ sendlog'["daily"].outcome \in {"ok", "gaveup"}

\* the daily loop finishes the last dispatch of the batch of category c
LastDispatchEnds(c) ==
    DailySendPostReturns /\ dcat = c /\ didx + 1 = Len(dposts)

\* a cycle of the daily loop starts: first run, or the 24 hour sleep is over
CycleStarts == pc["daily"] \in {"start", "daysleep"}

\* C14: the daily loop has at most one send in flight, that of the post at
\* the current index of the current batch, and its order is fixed: a post is
\* sent only after the send_post call of the previous post has returned,
\* motivation is selected only after the last forex dispatch (retries
\* included) has returned, the 24 hour sleep begins only when the last
\* motivation dispatch has returned, and forex is selected only when a
\* cycle starts.
C14_DailyOrder ==
    [][/\ InSendPost("daily")' =>
             /\ dcat' \in DailyCategories
             /\ didx' < Len(dposts')
             /\ post'["daily"] = dposts'[didx' + 1]
       /\ ~InSendPost("daily")' => post'["daily"] = NoPost
       /\ (pc["daily"] # "send" /\ pc'["daily"] = "send") =>
             \/ pc["daily"] = "backoff"
             \/ pc["daily"] = "sleep" /\ sendlog["daily"].outcome # "pending"
       /\ (didx' # didx /\ didx' > 0) =>
             /\ DailySendPostReturns
             /\ didx' = didx + 1 /\ dposts' = dposts /\ dcat' = dcat
             /\ pc'["daily"] = "sleep"
       /\ (dcat' = "motivation" /\ dcat # "motivation") =>
             \/ LastDispatchEnds("forex")
             \/ CycleStarts /\ data["forex"].items = <<>>
       /\ (pc'["daily"] = "daysleep" /\ pc["daily"] # "daysleep") =>
             \/ LastDispatchEnds("motivation")
             \/ LastDispatchEnds("forex") /\ data["motivation"].items = <<>>
             \/ CycleStarts /\ data["forex"].items = <<>>
                            /\ data["motivation"].items = <<>>
       /\ (dcat' = "forex" /\ (dcat # "forex" \/ pc["daily"] = "daysleep")) =>
             CycleStarts
      ]_vars

C14_Witness ==
    /\ pc["daily"] = "send"
    /\ dcat = "forex"
    /\ dispatched["motivation"] # {}

\* the loop that posts a category
Owner(c) == IF c \in DailyCategories THEN "daily" ELSE c

\* C15 as claimed: no category's sent list is ever read or written by a loop
\* other than the one that posts the category.
C15_OnlyOwnerTouches ==
    \A c \in Categories : \A a \in access[c] : a[1] = Owner(c)

\* C15 as amended: only the loop that posts a category filters on its sent
\* list and assigns it (every loop reads all four lists when it saves the
\* tracker).
C15_OnlyOwnerSelects ==
    \A c \in Categories :
        \A a \in access[c] : a[2] = "select" => a[1] = Owner(c)

C15_Witness ==
    /\ pc["morning"] = "send"
    /\ <<"morning", "select">> \in access["morning"]
    /\ <<"daily", "dump">> \in access["morning"]
    /\ file["morning"] = <<post["morning"]>>

\* C17: a step that changes the in-memory sent list of one category (a
\* selection of get_random_posts, a morning or weekend post) leaves the sent
\* lists of the three other categories unchanged.
C17_OtherListsUnchanged ==
    [][\A c \in Categories :
          sent'[c] # sent[c] =>
              \A d \in Categories \ {c} : sent'[d] = sent[d]]_vars

C17_Witness ==
    /\ pc["daily"] = "sleep"
    /\ sent[dcat] # <<>>
    /\ sent["morning"] # <<>>
    /\ sent["weekend"] # <<>>

(***************************************************************************)
(* The program with its scheduling: an awaited send returns or raises in   *)
(* the end, and an asyncio.sleep(delay) of send_post ends.  A send_post    *)
(* call uses only the variables of its own task, so the content files of   *)
(* one task at a time are present.                                         *)
(***************************************************************************)
\* the content files of one task present, the others missing
FairConfigs ==
    {d \in DataConfigs :
        \E l \in Loops :
            \A c \in Categories :
                (IF c \in DailyCategories THEN "daily" ELSE c) # l
                    => d[c] = MissingFile}

InitFair == Init /\ data \in FairConfigs

\* the awaited send of loop l returns or raises
SendResult(l) ==
    IF l = "daily"
    THEN DailySendSucceeds \/ DailySendFails
    ELSE FixedSendSucceeds(l) \/ FixedSendFails(l)

FairSpec ==
    /\ InitFair
    /\ [][Next]_vars
    /\ \A l \in Loops : WF_vars(SendResult(l) /\ UNCHANGED aside)
    /\ \A l \in Loops : WF_vars(BackoffDone(l) /\ UNCHANGED aside)

\* C20 (under FairSpec): every send_post call ends, after at most 4 sends
\* and 3 waits whatever the sends do, and the step in which a send succeeds
\* ends the call: no attempt and no wait follows it.
C20_SendPostTerminates ==
    /\ \A l \in Loops : InSendPost(l) ~> ~InSendPost(l)
    /\ [](\A l \in Loops :
            /\ sendlog[l].attempts + Len(sendlog[l].waits)
                  <= 2 * DEFAULT_RETRIES + 1
            /\ sendlog[l].outcome = "ok" =>
                  ~InSendPost(l) /\ post[l] = NoPost)
    /\ [][\A l \in Loops :
            (pc[l] = "send" /\ sendlog'[l].outcome = "ok") =>
                /\ ~InSendPost(l)'
                /\ sendlog'[l].attempts = sendlog[l].attempts
                /\ sendlog'[l].waits = sendlog[l].waits]_vars

C20_Witness ==
    \E l \in Loops :
        /\ sendlog[l].outcome = "ok"
        /\ sendlog[l].attempts = 3
        /\ sendlog[l].waits = <<5, 10>>

====
